---- MODULE Spec2Model ----
(***************************************************************************)
(* Model of the hybrid retail-analyst agent: the LangGraph state machine   *)
(* of agent/graph_hybrid.py (router, retriever, planner, nl2sql, executor, *)
(* synthesizer, repair and the conditional edges between them), the        *)
(* post-processing of agent/dspy_signatures.py, the store wrapper of       *)
(* agent/tools/sqlite_tool.py, the retriever of agent/rag/retrieval.py and *)
(* the per-question driver of run_agent_hybrid.py.                         *)
(*                                                                         *)
(* Text is a sequence of tokens: a token stands for a run of characters    *)
(* that the code's string tests (lower, strip, in, startswith, re.sub)     *)
(* treat as a unit.  Real numbers are integers in ten-thousandths.              *)
(***************************************************************************)
EXTENDS Integers, Sequences, FiniteSets, TLC

\* ------------------------------------------------------------------ bounds
\* Number of fragments in the document index.
NumDocs == 1

\* Cap on the length of the history of Synthesizer passes; the graph itself
\* stops after three.
MaxPasses == 4

\* Longest generated query text, in fragments, given to the normalization.
MaxSqlLen == 4

\* Most lines in a batch input file.
MaxLines == 3

\* ------------------------------------------------------------- fixed point
\* A real number x (confidence, relevance score) is the integer x * Scale.
Scale == 10000

\* ---------------------------------------------------------------- optional
\* Python's Optional[str] / a missing attribute of a Prediction.
NoText == [isNone |-> TRUE, v |-> <<>>]

SomeText(t) == [isNone |-> FALSE, v |-> t]

\* Truthiness of an Optional[str]: None and "" are falsy.
Truthy(o) == ~o.isNone /\ Len(o.v) > 0

\* ------------------------------------------------------------ text helpers
Whitespace == {" ", "\n"}

\* str.lower(), token by token.
LowerTok(t) ==
  CASE t = "SQL" -> "sql"
    [] t = "Sql" -> "sql"
    [] t = "RAG" -> "rag"
    [] t = "Hybrid" -> "hybrid"
    [] t = "No Such Column" -> "no such column"
    [] t = "Syntax Error" -> "syntax error"
    [] OTHER -> t

Lower(s) == [i \in 1..Len(s) |-> LowerTok(s[i])]

RECURSIVE LStrip(_)
LStrip(s) ==
  IF Len(s) > 0 /\ s[1] \in Whitespace THEN LStrip(Tail(s)) ELSE s

RECURSIVE RStrip(_)
RStrip(s) ==
  IF Len(s) > 0 /\ s[Len(s)] \in Whitespace
    THEN RStrip(SubSeq(s, 1, Len(s) - 1))
    ELSE s

\* str.strip()
Strip(s) == RStrip(LStrip(s))

\* "tok in s"
Contains(s, tok) == \E i \in 1..Len(s) : s[i] = tok

\* s.startswith(tok)
StartsWith(s, tok) == Len(s) > 0 /\ s[1] = tok

\* len(s) in characters: the token "<5001 chars>" stands for an oversized tail.
TokLen(t) == IF t = "<5001 chars>" THEN 5001 ELSE 1

RECURSIVE CharLen(_)
CharLen(s) == IF Len(s) = 0 THEN 0 ELSE TokLen(s[1]) + CharLen(Tail(s))

\* ------------------------------------------------------------ Python values
\* A Python value: t is type(x).__name__, n a number (an int as itself, a
\* float in ten-thousandths), s the text or the rendered content.
Py(t, n, s) == [t |-> t, n |-> n, s |-> s]

PyNone == Py("NoneType", 0, <<>>)

PyStrVal(s) == Py("str", 0, s)

\* float() of a NaN
PyNaN == Py("float", 0, <<"nan">>)

\* Numerals the model's texts are drawn from, with their values in ten-thousandths.
Numerals == {"0", "42", "3.7", "-2.718"}

NumeralValue(t) ==
  CASE t = "0" -> 0
    [] t = "42" -> 42 * Scale
    [] t = "3.7" -> 37000
    [] t = "-2.718" -> -27180

\* Numerals without a fraction or exponent: what JSON decodes to an int.
IntNumerals == {"0", "42"}

\* float(x) of a stripped text: a numeral, or nan; anything else raises.
FloatParses(s) == Len(s) = 1 /\ s[1] \in Numerals \cup {"nan"}

FloatOf(s) == IF s[1] = "nan" THEN PyNaN ELSE Py("float", NumeralValue(s[1]), <<>>)

\* int(f): truncation toward zero; raises on NaN.
Truncate(n) == IF n >= 0 THEN n \div Scale ELSE -((-n) \div Scale)

\* round(f): the digits argument left out
RoundToWhole(n) ==
  IF n >= 0 THEN ((n + (Scale \div 2)) \div Scale) * Scale
            ELSE -(((-n + (Scale \div 2)) \div Scale) * Scale)

\* round(f, 2)
Round2(n) ==
  IF n >= 0 THEN ((n + 50) \div 100) * 100
            ELSE -(((-n + 50) \div 100) * 100)

\* json.loads(s) succeeds on a single JSON document.
JsonDocs == Numerals \cup {"[1]", "[]", "{\"a\":1}", "{}", "\"a\"", "null"}

JsonParses(s) == Len(s) = 1 /\ s[1] \in JsonDocs

JsonOf(s) ==
  LET t == s[1] IN
  CASE t \in IntNumerals -> Py("int", NumeralValue(t) \div Scale, <<>>)
    [] t \in Numerals \ IntNumerals -> Py("float", NumeralValue(t), <<>>)
    [] t = "[1]" -> Py("list", 1, <<"1">>)
    [] t = "[]" -> Py("list", 0, <<>>)
    [] t = "{\"a\":1}" -> Py("dict", 1, <<"a", "1">>)
    [] t = "{}" -> Py("dict", 0, <<>>)
    [] t = "\"a\"" -> PyStrVal(<<"a">>)
    [] t = "null" -> PyNone

\* str(x) of a Python value.
PyStr(x) ==
  CASE x.t = "str" -> x.s
    [] x.t = "int" -> IF x.n = 0 THEN <<"0">> ELSE IF x.n = 42 THEN <<"42">> ELSE <<"<int>">>
    [] x.t = "float" ->
         IF x.s = <<"nan">> THEN <<"nan">>
         ELSE IF x.n = 0 THEN <<"0.0">>
         ELSE IF x.n = 37000 THEN <<"3.7">>
         ELSE <<"<float>">>
    [] x.t = "list" -> IF x.n = 0 THEN <<"[]">> ELSE <<"[", "...", "]">>
    [] x.t = "dict" -> IF x.n = 0 THEN <<"{}">> ELSE <<"{", "...", "}">>
    [] x.t = "NoneType" -> <<"None">>

\* ------------------------------------------------------------ format hints
\* A format hint is a text; "list[" and "{" are the prefixes the code tests.
FormatHints ==
  { <<"int">>, <<"float">>, <<"list">>, <<"list[", "str]">>,
    <<"object">>, <<"{", "a:int}">>, <<"str">> }

IsListHint(h) == StartsWith(h, "list[") \/ h = <<"list">>

IsObjectHint(h) == StartsWith(h, "{") \/ h = <<"object">>

\* ------------------------------------------------ SynthesizerModule helpers
GetFormatDefault(format_hint) ==
  CASE format_hint = <<"int">> -> Py("int", 0, <<>>)
    [] format_hint = <<"float">> -> Py("float", 0, <<>>)
    [] format_hint = <<"list">> -> Py("list", 0, <<>>)
    [] format_hint = <<"object">> -> Py("dict", 0, <<>>)
    [] OTHER ->
         IF StartsWith(format_hint, "list[") THEN Py("list", 0, <<>>)
         ELSE IF StartsWith(format_hint, "{") THEN Py("dict", 0, <<>>)
         ELSE PyStrVal(<<"Error">>)

\* _format_answer returning the trimmed text for every hint
FormatAnswerNoCoercion(answer, format_hint) == PyStrVal(Strip(PyStr(answer)))

\* _format_answer: every raise inside the outer try yields the default.
FormatAnswer(answer, format_hint) ==
  LET answer_str == Strip(PyStr(answer)) IN
  CASE format_hint = <<"int">> ->
         IF FloatParses(answer_str) /\ FloatOf(answer_str) # PyNaN
           THEN Py("int", Truncate(FloatOf(answer_str).n), <<>>)
           ELSE GetFormatDefault(format_hint)
    [] format_hint = <<"float">> ->
         IF FloatParses(answer_str)
           THEN IF FloatOf(answer_str) = PyNaN
                  THEN PyNaN
                  ELSE Py("float", Round2(FloatOf(answer_str).n), <<>>)
           ELSE GetFormatDefault(format_hint)
    [] OTHER ->
         IF IsListHint(format_hint)
           THEN IF answer.t = "list" THEN answer
                ELSE IF JsonParses(answer_str) THEN JsonOf(answer_str)
                ELSE Py("list", 1, answer_str)
         ELSE IF IsObjectHint(format_hint)
           THEN IF answer.t = "dict" THEN answer
                ELSE IF JsonParses(answer_str) THEN JsonOf(answer_str)
                ELSE Py("dict", 1, <<"result">> \o answer_str)
         ELSE PyStrVal(answer_str)

\* 1.1 ** repair_count: the decay factor turned into a growth factor
RECURSIVE PowElevenTenths(_)
PowElevenTenths(k) ==
  IF k = 0 THEN Scale ELSE (PowElevenTenths(k - 1) * 11000) \div Scale

\* 0.9 ** repair_count.
RECURSIVE PowNineTenths(_)
PowNineTenths(k) ==
  IF k = 0 THEN Scale ELSE (PowNineTenths(k - 1) * 9000) \div Scale

Max(a, b) == IF a >= b THEN a ELSE b

Min(a, b) == IF a <= b THEN a ELSE b

\* sql_result and hasattr(sql_result, 'rows') and sql_result.rows
HasRows(sql_result) == sql_result.present /\ sql_result.rows > 0

\* _calculate_confidence without the decay by repair_count
CalculateConfidenceNoDecay(sql_result, retrieved_docs, repair_count) ==
  LET c0 == 5000
      c1 == IF sql_result.present /\ sql_result.rows > 0 THEN c0 + 3000 ELSE c0
      c2 == IF Len(retrieved_docs) > 0 THEN c1 + 2000 ELSE c1
  IN IF c2 < 1000 THEN 1000 ELSE IF c2 > Scale THEN Scale ELSE c2

CalculateConfidence(sql_result, retrieved_docs, repair_count) ==
  LET c0 == 5000
      c1 == IF HasRows(sql_result) THEN c0 + 3000 ELSE c0
      c2 == IF Len(retrieved_docs) > 0 THEN c1 + 2000 ELSE c1
      c3 == (c2 * PowNineTenths(repair_count)) \div Scale
  IN Max(1000, Min(Scale, c3))

\* A citation value: a list of source names (kept as a set: the code
\* deduplicates through set()) or, when the JSON text was no list, the
\* decoded value's type.
CiteList(items) == [t |-> "list", items |-> items]

CanonicalTables == {"Orders", "Order Details", "Products", "Customers"}

DocIds(retrieved_docs) == {retrieved_docs[i].id : i \in 1..Len(retrieved_docs)}

GenerateBasicCitations(sql_result, retrieved_docs) ==
  CiteList(DocIds(retrieved_docs) \cup
           (IF HasRows(sql_result) THEN CanonicalTables ELSE {}))

\* The citation texts the reasoning capability may return, and json.loads of each.
CitationTexts == {<<"[\"Orders\"]">>, <<>>, <<"Orders, Products">>}

ParseCitations(citations_str, sql_result, retrieved_docs) ==
  IF Len(citations_str) = 0 THEN CiteList({})
  ELSE IF citations_str = <<"[\"Orders\"]">> THEN CiteList({"Orders"})
  ELSE GenerateBasicCitations(sql_result, retrieved_docs)

\* --------------------------------------------------------------- RouterModule
Routes == {<<"rag">>, <<"sql">>, <<"hybrid">>}

\* What the route classifier may return: a text of any case and padding, an
\* unknown word, or a prediction without the attribute.
RouteOutputs ==
  { SomeText(<<"rag">>), SomeText(<<" ", "SQL", "\n">>),
    SomeText(<<"both">>), NoText }

\* RouterModule.forward without .lower()
RouterForwardNoLower(out) ==
  LET route == Strip(IF out.isNone THEN <<"hybrid">> ELSE out.v) IN
  IF route \notin Routes THEN <<"hybrid">> ELSE route

RouterForward(out) ==
  LET route == Strip(Lower(IF out.isNone THEN <<"hybrid">> ELSE out.v)) IN
  IF route \notin Routes THEN <<"hybrid">> ELSE route

\* --------------------------------------------------------------- NL2SQLModule
\* A query text is a sequence of fragments; a literal pattern is the
\* sequence of fragments that spells it, so that fragments of different
\* origin can line up into a match.
RECURSIVE SubFirstOnly(_, _, _)
\* re.sub(pattern, replacement, sql, count=1)
SubFirstOnly(sql, pattern, replacement) ==
  IF Len(sql) = 0 THEN <<>>
  ELSE IF Len(pattern) <= Len(sql) /\ SubSeq(sql, 1, Len(pattern)) = pattern
    THEN replacement \o SubSeq(sql, Len(pattern) + 1, Len(sql))
  ELSE <<sql[1]>> \o SubFirstOnly(Tail(sql), pattern, replacement)

RECURSIVE Sub(_, _, _)
\* re.sub(pattern, replacement, sql) for a literal pattern: the leftmost
\* non-overlapping matches are replaced, the replacement is not rescanned.
Sub(sql, pattern, replacement) ==
  IF Len(sql) = 0 THEN <<>>
  ELSE IF Len(pattern) <= Len(sql) /\ SubSeq(sql, 1, Len(pattern)) = pattern
    THEN replacement
         \o Sub(SubSeq(sql, Len(pattern) + 1, Len(sql)), pattern, replacement)
  ELSE <<sql[1]>> \o Sub(Tail(sql), pattern, replacement)

CleanSql(sql) ==
  Sub(Sub(Sub(sql, <<"\"Order", " Details\"">>, <<"order_", "items">>),
          <<"Order_", "Items">>, <<"order_", "items">>),
      <<"Customer", "Name">>, <<"Company", "Name">>)

\* The fragments a generated query is made of: the pieces of the three
\* patterns and of their replacements, and other text.
Fragments ==
  { "\"Order", " Details\"", "Order_", "Items", "Customer", "Name",
    "order_", "items", "Company", "x" }

\* Every generated query text of at most MaxSqlLen fragments.
SqlTexts == UNION {[1..n -> Fragments] : n \in 0..MaxSqlLen}

PlaceholderSql == <<"SELECT 1 as error">>

\* The query texts the generator may return.
SqlOutputs ==
  { SomeText(<<" ", "SELECT ", "Customer", "Name", " FROM ", "\"Order",
               " Details\"", ", ", "Order_", "Items", "\n">>),
    SomeText(<<" ", "\n">>),
    SomeText(<<"SELECT ", "<5001 chars>">>),
    NoText }

\* NL2SQLModule.forward without the placeholder for an empty text
NL2SQLForwardNoPlaceholder(out) ==
  LET sql0 == Strip(IF out.isNone THEN <<>> ELSE out.v)
  IN IF Len(sql0) > 0 THEN CleanSql(sql0) ELSE sql0

\* NL2SQLModule.forward; nl2sql_node stores its sql
NL2SQLForward(out) ==
  LET sql0 == Strip(IF out.isNone THEN <<>> ELSE out.v)
      sql == IF Len(sql0) > 0 THEN CleanSql(sql0) ELSE sql0
  IN IF Len(sql) > 0 THEN sql ELSE PlaceholderSql

\* ----------------------------------------------------------------- SQLiteTool
SQLResult(columns, rows, error) ==
  [present |-> TRUE, columns |-> columns, rows |-> rows, error |-> error]

\* state["sql_result"] = None
NoResult == [present |-> FALSE, columns |-> 0, rows |-> 0, error |-> NoText]

MaxQueryLen == 5000

FetchLimit == 500

ErrorTextLimit == 200

\* Row counts the store may hold for a query.
RowCounts == {0, 501}

\* str(e) of the exceptions the store may raise.
StoreMessages ==
  { <<"no such column", ": x">>,
    <<"no such table", ": t; ", "no such column">>,
    <<"near ", "no such table", ": ", "Syntax Error">>,
    <<"sql_", "custom failure">>,
    <<>> }

\* What executing a query against the database does: rows, or an exception.
StoreOutcomes ==
  {[ok |-> TRUE, n |-> k, msg |-> <<>>] : k \in RowCounts}
  \cup {[ok |-> FALSE, n |-> 0, msg |-> m] : m \in StoreMessages}

RECURSIVE TakeChars(_, _)
\* s[:k]
TakeChars(s, k) ==
  IF Len(s) = 0 \/ TokLen(s[1]) > k THEN <<>>
  ELSE <<s[1]>> \o TakeChars(Tail(s), k - TokLen(s[1]))

Execute(query, outcome) ==
  IF Len(query) = 0 \/ Len(Strip(query)) = 0
    THEN SQLResult(0, 0, SomeText(<<"empty_query">>))
  ELSE IF CharLen(Strip(query)) > MaxQueryLen
    THEN SQLResult(0, 0, SomeText(<<"query_too_long">>))
  ELSE IF outcome.ok
    THEN SQLResult(1, Min(outcome.n, FetchLimit), NoText)
    ELSE SQLResult(0, 0, SomeText(TakeChars(outcome.msg, ErrorTextLimit)))

\* ------------------------------------------------------------------ Retriever
TopK == 3

\* scores[idx] > 0.01
RelevanceFloor == 100

\* Cosine similarities a fragment may get: none, exactly the floor, 0.02.
ScoreValues == {0, 100, 200}

DocId(i) == IF i = 1 THEN "d1" ELSE IF i = 2 THEN "d2" ELSE "d3"

\* The orders np.argsort / np.argpartition may produce: the top_k best
\* indices, best first, ties in any order.
TopIndices(scores, top_k) ==
  LET N == NumDocs
      k == Min(N, top_k)
  IN { r \in [1..k -> 1..N] :
         /\ \A i, j \in 1..k : i # j => r[i] # r[j]
         /\ \A i \in 1..(k - 1) : scores[r[i]] >= scores[r[i + 1]]
         /\ \A m \in 1..N : \A i \in 1..k :
              (\A j \in 1..k : r[j] # m) => scores[m] <= scores[r[i]] }

RECURSIVE Results(_, _)
Results(scores, top_indices) ==
  IF Len(top_indices) = 0 THEN <<>>
  ELSE (IF scores[top_indices[1]] > RelevanceFloor
          THEN <<[id |-> DocId(top_indices[1]), score |-> scores[top_indices[1]]]>>
          ELSE <<>>)
       \o Results(scores, Tail(top_indices))

\* search(query, top_k): scores are the similarities of the index to the
\* query, top_indices the order the sort produced, failed a raise inside.
Search(query, scores, top_indices, failed) ==
  IF Len(Strip(query)) = 0 THEN <<>>
  ELSE IF failed THEN <<>>
  ELSE Results(scores, top_indices)

\* ------------------------------------------------- HybridAgent: pure helpers
\* tok.startswith(prefix) for the prefixes the code tests.
TokStartsWith(tok, prefix) ==
  CASE prefix = "sql_" ->
         tok \in {"sql_", "sql_syntax_error", "sql_table_error",
                  "sql_column_error", "sql_execution_error"}
    [] prefix = "format_" -> tok \in {"format_", "format_validation_failed"}
    [] prefix = "missing_" -> tok = "missing_"
    [] OTHER -> tok = prefix

TextStartsWith(s, prefix) == Len(s) > 0 /\ TokStartsWith(s[1], prefix)

\* str(x).replace('.', '').replace('-', '').isdigit()
DigitsOnly(x) ==
  IF x.t = "float" THEN x.s # <<"nan">>
  ELSE Len(x.s) = 1 /\ x.s[1] \in Numerals \cup {"0.0"}

\* _is_float
IsFloat(value) == FloatParses(Strip(value))

ValidateFormat(answer, format_hint) ==
  CASE format_hint = <<"int">> ->
         answer.t = "int" \/ (answer.t \in {"str", "float"} /\ DigitsOnly(answer))
    [] format_hint = <<"float">> ->
         answer.t \in {"int", "float"} \/ (answer.t = "str" /\ IsFloat(answer.s))
    [] format_hint = <<"list">> -> answer.t = "list"
    [] format_hint = <<"object">> -> answer.t = "dict"
    [] OTHER ->
         IF IsListHint(format_hint) THEN answer.t = "list"
         ELSE IF IsObjectHint(format_hint) THEN answer.t = "dict"
         ELSE TRUE

\* _detect_sql_error matching the message as the store wrote it
DetectSqlErrorNoLower(st) ==
  IF ~st.sql_result.present \/ ~Truthy(st.sql_result.error) THEN NoText
  ELSE LET msg == st.sql_result.error.v
       IN IF Contains(msg, "syntax error")
            THEN SomeText(<<"sql_syntax_error", ": ">> \o msg)
          ELSE IF Contains(msg, "no such table")
            THEN SomeText(<<"sql_table_error", ": ">> \o msg)
          ELSE IF Contains(msg, "no such column")
            THEN SomeText(<<"sql_column_error", ": ">> \o msg)
          ELSE SomeText(<<"sql_execution_error", ": ">> \o msg)

\* _detect_sql_error: None, or "<tag>: <message>"
DetectSqlError(st) ==
  IF ~st.sql_result.present \/ ~Truthy(st.sql_result.error) THEN NoText
  ELSE LET msg == st.sql_result.error.v
           error_lower == Lower(msg)
       IN IF Contains(error_lower, "syntax error")
            THEN SomeText(<<"sql_syntax_error", ": ">> \o msg)
          ELSE IF Contains(error_lower, "no such table")
            THEN SomeText(<<"sql_table_error", ": ">> \o msg)
          ELSE IF Contains(error_lower, "no such column")
            THEN SomeText(<<"sql_column_error", ": ">> \o msg)
          ELSE SomeText(<<"sql_execution_error", ": ">> \o msg)

\* _detect_format_error
DetectFormatError(st) ==
  IF ~ValidateFormat(st.final_answer, st.format_hint)
    THEN SomeText(<<"format_validation_failed", ": expected ">> \o st.format_hint
                  \o <<", got ", st.final_answer.t>>)
    ELSE NoText

END == "__end__"

\* The conditional edge raised instead of naming a node.
Raised == "raised"

ShouldRetrieve(st) ==
  IF st.route \in {<<"rag">>, <<"hybrid">>} THEN "retriever" ELSE "planner"

\* should_plan sending every route on to the planner
ShouldPlanAlways(st) == "planner"

ShouldPlan(st) ==
  IF st.route \in {<<"sql">>, <<"hybrid">>} THEN "planner" ELSE "synthesizer"

ShouldExecuteSql(st) ==
  IF st.route \in {<<"sql">>, <<"hybrid">>} THEN "nl2sql" ELSE "synthesizer"

\* should_repair looking at the query failure only
ShouldRepairSqlOnly(st) ==
  IF st.repair_count >= 2 THEN END
  ELSE IF Truthy(DetectSqlError(st)) THEN "repair" ELSE END

ShouldRepair(st) ==
  IF st.repair_count >= 2 THEN END
  ELSE IF Truthy(DetectSqlError(st)) \/ Truthy(DetectFormatError(st))
    THEN "repair"
    ELSE END

\* after_repair sending every failed query back to nl2sql
AfterRepairAlwaysRegenerates(st) ==
  IF st.error.isNone THEN Raised ELSE "nl2sql"

\* after_repair: state["error"] is None unless the executor copied a store
\* message into it, and None has no startswith.
AfterRepair(st) ==
  IF st.error.isNone THEN Raised
  ELSE IF TextStartsWith(st.error.v, "sql_") THEN "nl2sql"
  ELSE IF TextStartsWith(st.error.v, "format_") \/ TextStartsWith(st.error.v, "missing_")
    THEN "synthesizer"
  ELSE "synthesizer"

\* repair_node clearing error on every visit
RepairNodeClearsError(st) ==
  [st EXCEPT !.repair_count = st.repair_count + 1, !.error = NoText]

\* repair_node adding 2 to repair_count
RepairNodeDoubleStep(st) ==
  LET s1 == [st EXCEPT !.repair_count = st.repair_count + 2] IN
  IF s1.repair_count > 2
    THEN [s1 EXCEPT !.confidence = Max(1000, (s1.confidence * 3) \div 10),
                    !.error = NoText]
  ELSE IF ~Truthy(DetectSqlError(s1)) /\ ~Truthy(DetectFormatError(s1))
    THEN [s1 EXCEPT !.error = NoText,
                    !.confidence =
                      Max(1000,
                          (s1.confidence * PowNineTenths(s1.repair_count)) \div Scale)]
  ELSE s1

\* repair_node without the increment of repair_count
RepairNodeNoIncrement(st) ==
  IF st.repair_count > 2
    THEN [st EXCEPT !.confidence = Max(1000, (st.confidence * 3) \div 10),
                    !.error = NoText]
  ELSE IF ~Truthy(DetectSqlError(st)) /\ ~Truthy(DetectFormatError(st))
    THEN [st EXCEPT !.error = NoText,
                    !.confidence =
                      Max(1000,
                          (st.confidence * PowNineTenths(st.repair_count)) \div Scale)]
  ELSE st

\* repair_node
RepairNode(st) ==
  LET s1 == [st EXCEPT !.repair_count = st.repair_count + 1] IN
  IF s1.repair_count > 2
    THEN [s1 EXCEPT !.confidence = Max(1000, (s1.confidence * 3) \div 10),
                    !.error = NoText]
  ELSE IF ~Truthy(DetectSqlError(s1)) /\ ~Truthy(DetectFormatError(s1))
    THEN [s1 EXCEPT !.error = NoText,
                    !.confidence =
                      Max(1000,
                          (s1.confidence * PowNineTenths(s1.repair_count)) \div Scale)]
  ELSE s1

\* SynthesizerModule.forward followed by synthesizer_node's assignments.
\* answer and citations_str are the fields the reasoning capability returned.
SynthesizerNode(st, answer, citations_str) ==
  LET final_answer ==
        IF answer.isNone THEN GetFormatDefault(st.format_hint) ELSE PyStrVal(answer.v)
  IN [st EXCEPT
        !.final_answer = FormatAnswer(final_answer, st.format_hint),
        !.confidence = CalculateConfidence(st.sql_result, st.retrieved_docs,
                                           st.repair_count),
        !.citations = IF citations_str.isNone
                        THEN CiteList({})
                        ELSE ParseCitations(citations_str.v, st.sql_result,
                                            st.retrieved_docs)]

\* executor_node leaving error as it was when the store reports none
ExecutorNodeKeepsError(st, outcome) ==
  LET sql_result == Execute(st.sql, outcome) IN
  [st EXCEPT !.sql_result = sql_result,
             !.error = IF Truthy(sql_result.error) THEN sql_result.error ELSE st.error]

\* executor_node
ExecutorNode(st, outcome) ==
  LET sql_result == Execute(st.sql, outcome) IN
  [st EXCEPT !.sql_result = sql_result,
             !.error = IF Truthy(sql_result.error) THEN sql_result.error ELSE NoText]

\* -------------------------------------------------------------- PlannerModule
\* The constraint texts the reasoning capability may return.
PlannerOutputs == {SomeText(<<"{}">>), SomeText(<<"not json">>), NoText}

\* PlannerModule.forward: json.loads, {} when it raises, json.dumps of the
\* result; planner_node decodes that text again.
PlannerNode(out) ==
  LET constraints_str == IF out.isNone THEN <<"{}">> ELSE out.v IN
  IF JsonParses(constraints_str) THEN JsonOf(constraints_str) ELSE Py("dict", 0, <<>>)

\* --------------------------------------------------------------------- driver
\* get_fallback_answer
GetFallbackAnswer(format_hint) ==
  CASE format_hint = <<"int">> -> Py("int", 0, <<>>)
    [] format_hint = <<"float">> -> Py("float", 0, <<>>)
    [] format_hint = <<"list">> -> Py("list", 0, <<>>)
    [] format_hint = <<"object">> -> Py("dict", 0, <<>>)
    [] OTHER ->
         IF StartsWith(format_hint, "list[") THEN Py("list", 0, <<>>)
         ELSE IF StartsWith(format_hint, "{") THEN Py("dict", 0, <<>>)
         ELSE PyStrVal(<<"Error: Unable to generate answer">>)

\* float(str(x)) succeeds
FloatOfValueParses(x) ==
  \/ x.t = "int"
  \/ x.t = "float"
  \/ x.t = "str" /\ FloatParses(Strip(x.s))

FloatOfValue(x) ==
  IF x.t = "int" THEN Py("float", x.n * Scale, <<>>)
  ELSE IF x.t = "float" THEN x
  ELSE FloatOf(Strip(x.s))

\* format_answer_for_output
FormatAnswerForOutput(answer, format_hint) ==
  CASE format_hint = <<"int">> ->
         IF FloatOfValueParses(answer) /\ FloatOfValue(answer) # PyNaN
           THEN Py("int", Truncate(FloatOfValue(answer).n), <<>>)
           ELSE GetFallbackAnswer(format_hint)
    [] format_hint = <<"float">> ->
         IF FloatOfValueParses(answer)
           THEN IF FloatOfValue(answer) = PyNaN
                  THEN PyNaN
                  ELSE Py("float", Round2(FloatOfValue(answer).n), <<>>)
           ELSE GetFallbackAnswer(format_hint)
    [] OTHER ->
         IF IsListHint(format_hint)
           THEN IF answer.t = "list" THEN answer
                ELSE IF answer.t = "str"
                  THEN IF JsonParses(Strip(answer.s)) THEN JsonOf(Strip(answer.s))
                       ELSE GetFallbackAnswer(format_hint)
                ELSE Py("list", 1, PyStr(answer))
         ELSE IF IsObjectHint(format_hint)
           THEN IF answer.t = "dict" THEN answer
                ELSE IF answer.t = "str"
                  THEN IF JsonParses(Strip(answer.s)) THEN JsonOf(Strip(answer.s))
                       ELSE GetFallbackAnswer(format_hint)
                ELSE Py("dict", 1, <<"result">> \o PyStr(answer))
         ELSE answer

\* The question of the batch item.
Questions == {<<"top products by revenue?">>}

\* process_question's initial_state
InitialState(question, format_hint) ==
  [ question |-> question,
    format_hint |-> format_hint,
    route |-> <<>>,
    retrieved_docs |-> <<>>,
    extracted_constraints |-> Py("dict", 0, <<>>),
    sql |-> <<>>,
    sql_result |-> NoResult,
    final_answer |-> PyNone,
    confidence |-> 0,
    citations |-> CiteList({}),
    error |-> NoText,
    repair_count |-> 0 ]

\* No record written yet.
NoRecord == [kind |-> "none", final_answer |-> PyNone, sql |-> <<>>,
             confidence |-> 0, citations |-> CiteList({})]

\* --------------------------------------------------------------------- state
VARIABLES
  state,            \* the AgentState of the run
  pc,               \* the node the graph runs next, END, Raised, or "done"
  schema_cache,     \* HybridAgent._schema_cache is populated
  llm_route,        \* what the route classifier returned (history)
  exec_log,         \* the store's result objects, in order (history)
  synth_log,        \* the confidence each Synthesizer pass produced (history)
  nl2sql_runs,      \* number of QueryGen visits (history)
  visited,          \* the nodes the graph has run, in order (history)
  output,           \* the record process_question returned
  clean_in,         \* a query text handed to _clean_sql on its own
  clean_out,        \* the results of applying _clean_sql to it, repeatedly
  lines,            \* the lines of the batch input file
  line_num,         \* how many of them run's loop has consumed
  results,          \* run's list of records
  out_file,         \* the output file run wrote
  trace,            \* the steps written to the trace file, in order
  shadow            \* the same run with every trace write succeeding

vars == <<state, pc, schema_cache, llm_route, exec_log, synth_log, nl2sql_runs,
          visited, output, clean_in, clean_out, lines, line_num, results, out_file,
          trace, shadow>>

normalization == <<clean_in, clean_out>>

batch == <<lines, line_num, results, out_file>>

tracing == <<trace, shadow>>

\* The output file before run writes it.
NoFile == [written |-> FALSE, records |-> <<>>]

history == <<llm_route, exec_log, synth_log, nl2sql_runs>>

\* No run is being followed.
NoRun == [state |-> InitialState(<<>>, <<"str">>), pc |-> "done", visited |-> <<>>]

Init ==
  /\ \E q \in Questions, h \in FormatHints : state = InitialState(q, h)
  /\ pc = "router"
  /\ schema_cache = FALSE
  /\ llm_route = NoText
  /\ exec_log = <<>>
  /\ synth_log = <<>>
  /\ nl2sql_runs = 0
  /\ visited = <<>>
  /\ output = NoRecord
  /\ clean_in = <<>>
  /\ clean_out = <<>>
  /\ lines = <<>>
  /\ line_num = 0
  /\ results = <<>>
  /\ out_file = NoFile
  /\ trace = <<>>
  /\ shadow = NoRun

\* router_node, then the edge should_retrieve
Router ==
  /\ pc = "router"
  /\ \E out \in RouteOutputs :
       /\ state' = [state EXCEPT !.route = RouterForward(out)]
       /\ llm_route' = out
  /\ pc' = ShouldRetrieve(state')
  /\ visited' = Append(visited, "router")
  /\ UNCHANGED <<schema_cache, exec_log, synth_log, nl2sql_runs, output, normalization, batch, tracing>>

\* retriever_node, then the edge should_plan
RetrieverStep ==
  /\ pc = "retriever"
  /\ \E scores \in [1..NumDocs -> ScoreValues], failed \in BOOLEAN :
       \E top_indices \in TopIndices(scores, TopK) :
         state' = [state EXCEPT !.retrieved_docs =
                     Search(state.question, scores, top_indices, failed)]
  /\ pc' = ShouldPlan(state')
  /\ visited' = Append(visited, "retriever")
  /\ UNCHANGED <<schema_cache, history, output, normalization, batch, tracing>>

\* planner_node (with PlannerModule.forward), then the edge should_execute_sql
Planner ==
  /\ pc = "planner"
  /\ \E out \in PlannerOutputs :
       state' = [state EXCEPT !.extracted_constraints = PlannerNode(out)]
  /\ pc' = ShouldExecuteSql(state')
  /\ visited' = Append(visited, "planner")
  /\ UNCHANGED <<schema_cache, history, output, normalization, batch, tracing>>

\* nl2sql_node, then the edge to executor
NL2SQL ==
  /\ pc = "nl2sql"
  /\ schema_cache' = TRUE
  /\ \E out \in SqlOutputs : state' = [state EXCEPT !.sql = NL2SQLForward(out)]
  /\ nl2sql_runs' = nl2sql_runs + 1
  /\ pc' = "executor"
  /\ visited' = Append(visited, "nl2sql")
  /\ UNCHANGED <<llm_route, exec_log, synth_log, output, normalization, batch, tracing>>

\* executor_node, then the edge to synthesizer
Executor ==
  /\ pc = "executor"
  /\ \E outcome \in StoreOutcomes :
       /\ state' = ExecutorNode(state, outcome)
       /\ exec_log' = Append(exec_log, Execute(state.sql, outcome))
  /\ pc' = "synthesizer"
  /\ visited' = Append(visited, "executor")
  /\ UNCHANGED <<schema_cache, llm_route, synth_log, nl2sql_runs, output, normalization, batch, tracing>>

\* The answer texts the reasoning capability may return.
AnswerOutputs ==
  { SomeText(<<"42">>), SomeText(<<" ", "-2.718">>), SomeText(<<"nan">>),
    SomeText(<<"abc">>), SomeText(<<"[1]">>), SomeText(<<"{\"a\":1}">>),
    SomeText(<<>>), NoText }

CitationOutputs == {SomeText(c) : c \in CitationTexts} \cup {NoText}

\* synthesizer_node, then the edge should_repair
Synthesizer ==
  /\ pc = "synthesizer"
  /\ Len(synth_log) < MaxPasses
  /\ \E answer \in AnswerOutputs, citations_str \in CitationOutputs :
       state' = SynthesizerNode(state, answer, citations_str)
  /\ synth_log' = Append(synth_log, state'.confidence)
  /\ pc' = ShouldRepair(state')
  /\ visited' = Append(visited, "synthesizer")
  /\ UNCHANGED <<schema_cache, llm_route, exec_log, nl2sql_runs, output, normalization, batch, tracing>>

\* repair_node, then the edge after_repair
Repair ==
  /\ pc = "repair"
  /\ state' = RepairNode(state)
  /\ pc' = AfterRepair(state')
  /\ visited' = Append(visited, "repair")
  /\ UNCHANGED <<schema_cache, history, output, normalization, batch, tracing>>

\* process_question after graph.invoke returned result_state
ReturnRecord ==
  /\ pc = END
  /\ output' = [ kind |-> "normal",
                 final_answer |-> FormatAnswerForOutput(state.final_answer,
                                                        state.format_hint),
                 sql |-> state.sql,
                 confidence |-> Round2(state.confidence),
                 citations |-> state.citations ]
  /\ pc' = "done"
  /\ UNCHANGED <<state, schema_cache, history, visited, normalization, batch, tracing>>

\* process_question's except branch
FallbackRecord ==
  /\ pc = Raised
  /\ output' = [ kind |-> "fallback",
                 final_answer |-> GetFallbackAnswer(state.format_hint),
                 sql |-> <<>>,
                 confidence |-> 1000,
                 citations |-> CiteList({}) ]
  /\ pc' = "done"
  /\ UNCHANGED <<state, schema_cache, history, visited, normalization, batch, tracing>>

Next ==
  \/ Router
  \/ RetrieverStep
  \/ Planner
  \/ NL2SQL
  \/ Executor
  \/ Synthesizer
  \/ Repair
  \/ ReturnRecord
  \/ FallbackRecord

Spec == Init /\ [][Next]_vars

\* _clean_sql on its own: a generated query text of any arrangement of
\* fragments is normalized, and the result normalized again.
CleanInit ==
  /\ state = InitialState(<<>>, <<"str">>)
  /\ pc = "done"
  /\ schema_cache = FALSE
  /\ llm_route = NoText
  /\ exec_log = <<>>
  /\ synth_log = <<>>
  /\ nl2sql_runs = 0
  /\ visited = <<>>
  /\ output = NoRecord
  /\ clean_in \in SqlTexts
  /\ clean_out = <<>>
  /\ lines = <<>>
  /\ line_num = 0
  /\ results = <<>>
  /\ out_file = NoFile
  /\ trace = <<>>
  /\ shadow = NoRun

ApplyCleanSql ==
  /\ Len(clean_out) < 2
  /\ clean_out' = Append(clean_out,
                         CleanSql(IF clean_out = <<>>
                                    THEN clean_in
                                    ELSE clean_out[Len(clean_out)]))
  /\ UNCHANGED <<state, pc, schema_cache, history, visited, output, clean_in,
                 batch, tracing>>

CleanNext == ApplyCleanSql

CleanSpec == CleanInit /\ [][CleanNext]_vars

\* ---------------------------------------------------------------- batch run
\* What a line of the batch file may hold: nothing but white space, text
\* that is no JSON, a JSON number, or a JSON object with a format_hint.
LineForms ==
  { [text |-> <<" ", "\n">>, format_hint |-> <<>>],
    [text |-> <<"not json", "\n">>, format_hint |-> <<>>],
    [text |-> <<"5", "\n">>, format_hint |-> <<>>] }
  \cup {[text |-> <<"{item}", "\n">>, format_hint |-> h] : h \in FormatHints}

\* The batch files of at most MaxLines lines; the object on line i has id i.
Batches ==
  UNION { { [i \in 1..n |-> [text |-> f[i].text, id |-> i,
                             question |-> CHOOSE q \in Questions : TRUE,
                             format_hint |-> f[i].format_hint]] :
            f \in [1..n -> LineForms] } : n \in 0..MaxLines }

\* json.loads(line) succeeds
LineParses(line) == line \in {<<"5">>, <<"{item}">>}

\* json.loads(line) is a dict, so item.get exists
LineIsDict(line) == line = <<"{item}">>

\* The answer texts the reasoning capability returns in a batch run.
BatchAnswers == {SomeText(<<"42">>), SomeText(<<"abc">>)}

\* The citation texts it returns in a batch run.
BatchCitations == {SomeText(<<"[\"Orders\"]">>)}

\* graph.invoke(initial_state) for a question the classifier routes rag and
\* the index has no fragment for: router, retriever, synthesizer and, on a
\* format failure, repair and after_repair (error is None: the run never
\* reached the store). classify_raises: the reasoning capability raised in
\* the router, which no node catches.
Invoke(initial_state, classify_raises, answer, citations_str) ==
  IF classify_raises THEN [raised |-> TRUE, st |-> initial_state]
  ELSE
    LET routed == [initial_state EXCEPT
                     !.route = RouterForward(SomeText(<<"rag">>))]
        scores == [i \in 1..NumDocs |-> 0]
        retrieved == [routed EXCEPT
                        !.retrieved_docs =
                          Search(routed.question, scores,
                                 CHOOSE t \in TopIndices(scores, TopK) : TRUE,
                                 FALSE)]
        answered == SynthesizerNode(retrieved, answer, citations_str)
        repaired == RepairNode(answered)
    IN IF ShouldRepair(answered) = END
         THEN [raised |-> FALSE, st |-> answered]
         ELSE [raised |-> AfterRepair(repaired) = Raised, st |-> repaired]

\* process_question: the record it returns for item
ProcessQuestion(item, classify_raises, answer, citations_str) ==
  LET run == Invoke(InitialState(item.question, item.format_hint),
                    classify_raises, answer, citations_str)
  IN IF run.raised
       THEN [ id |-> item.id, kind |-> "fallback",
              final_answer |-> GetFallbackAnswer(item.format_hint),
              sql |-> <<>>,
              confidence |-> 1000,
              citations |-> CiteList({}) ]
       ELSE [ id |-> item.id, kind |-> "normal",
              final_answer |-> FormatAnswerForOutput(run.st.final_answer,
                                                     item.format_hint),
              sql |-> run.st.sql,
              confidence |-> Round2(run.st.confidence),
              citations |-> run.st.citations ]

\* results.append(result) with the record put in front
PrependResult(list, result) == <<result>> \o list

\* results.append(result)
AppendResult(list, result) == Append(list, result)

BatchInit ==
  /\ state = InitialState(<<>>, <<"str">>)
  /\ pc = "done"
  /\ schema_cache = FALSE
  /\ llm_route = NoText
  /\ exec_log = <<>>
  /\ synth_log = <<>>
  /\ nl2sql_runs = 0
  /\ visited = <<>>
  /\ output = NoRecord
  /\ clean_in = <<>>
  /\ clean_out = <<>>
  /\ lines \in Batches
  /\ line_num = 0
  /\ results = <<>>
  /\ out_file = NoFile
  /\ trace = <<>>
  /\ shadow = NoRun

\* run's loop body on a line that is empty once stripped
SkipEmptyLine ==
  /\ line_num < Len(lines)
  /\ Len(Strip(lines[line_num + 1].text)) = 0
  /\ line_num' = line_num + 1
  /\ UNCHANGED <<state, pc, schema_cache, history, visited, output,
                 normalization, tracing, lines, results, out_file>>

\* run's loop body when json.loads raises JSONDecodeError
SkipMalformedLine ==
  /\ line_num < Len(lines)
  /\ Len(Strip(lines[line_num + 1].text)) > 0
  /\ ~LineParses(Strip(lines[line_num + 1].text))
  /\ line_num' = line_num + 1
  /\ UNCHANGED <<state, pc, schema_cache, history, visited, output,
                 normalization, tracing, lines, results, out_file>>

\* run's loop body when process_question raises: item is no dict, so
\* item.get, outside process_question's try, raises AttributeError
SkipFailedLine ==
  /\ line_num < Len(lines)
  /\ Len(Strip(lines[line_num + 1].text)) > 0
  /\ LineParses(Strip(lines[line_num + 1].text))
  /\ ~LineIsDict(Strip(lines[line_num + 1].text))
  /\ line_num' = line_num + 1
  /\ UNCHANGED <<state, pc, schema_cache, history, visited, output,
                 normalization, tracing, lines, results, out_file>>

\* run's loop body on a line holding an object
ProcessLine ==
  /\ line_num < Len(lines)
  /\ Len(Strip(lines[line_num + 1].text)) > 0
  /\ LineParses(Strip(lines[line_num + 1].text))
  /\ LineIsDict(Strip(lines[line_num + 1].text))
  /\ \E classify_raises \in BOOLEAN, answer \in BatchAnswers,
        citations_str \in BatchCitations :
       results' = AppendResult(results,
                               ProcessQuestion(lines[line_num + 1],
                                               classify_raises, answer,
                                               citations_str))
  /\ line_num' = line_num + 1
  /\ UNCHANGED <<state, pc, schema_cache, history, visited, output,
                 normalization, tracing, lines, out_file>>

\* run after the loop: the records are written in the order of results
WriteOutput ==
  /\ line_num = Len(lines)
  /\ ~out_file.written
  /\ out_file' = [written |-> TRUE, records |-> results]
  /\ UNCHANGED <<state, pc, schema_cache, history, visited, output,
                 normalization, tracing, lines, line_num, results>>

BatchNext ==
  \/ SkipEmptyLine
  \/ SkipMalformedLine
  \/ SkipFailedLine
  \/ ProcessLine
  \/ WriteOutput

BatchSpec == BatchInit /\ [][BatchNext]_vars

\* ------------------------------------------------------- runs with a trace
\* log_step reporting a failed write to its caller
LogStepPropagates(file, step, write_fails) ==
  [file |-> IF write_fails THEN file ELSE Append(file, step),
   raised |-> write_fails]

\* TraceLogger.log_step: the entry is appended unless the write fails, and
\* the failure is caught and dropped.
LogStep(file, step, write_fails) ==
  [file |-> IF write_fails THEN file ELSE Append(file, step),
   raised |-> FALSE]

\* The format hints and answer texts of the traced runs.
TraceHints == {<<"int">>, <<"list">>}

TraceAnswers == {SomeText(<<"42">>), SomeText(<<"[1]">>)}

\* What a store does in the traced runs: rows, or a failure.
TraceOutcomes ==
  { [ok |-> TRUE, n |-> 501, msg |-> <<>>],
    [ok |-> FALSE, n |-> 0, msg |-> <<"sql_", "custom failure">>] }

\* A node returned: the run after it, given the state it left, the node its
\* edge names and whether its log_step call raised.
AfterNode(run, node, after, next, raised) ==
  [state |-> after,
   pc |-> IF raised THEN Raised ELSE next,
   visited |-> Append(run.visited, node)]

\* The run being followed, as one value.
ThisRun == [state |-> state, pc |-> pc, visited |-> visited]

\* The followed run and its shadow take the step a node makes of them.
Follow(node, after, next, shadow_after, shadow_next, logged) ==
  LET run == AfterNode(ThisRun, node, after, next, logged.raised) IN
  /\ state' = run.state
  /\ pc' = run.pc
  /\ visited' = run.visited
  /\ trace' = logged.file
  /\ shadow' = AfterNode(shadow, node, shadow_after, shadow_next, FALSE)
  /\ UNCHANGED <<schema_cache, history, output, normalization, batch>>

TraceInit ==
  /\ \E q \in Questions, h \in TraceHints : state = InitialState(q, h)
  /\ pc = "router"
  /\ schema_cache = FALSE
  /\ llm_route = NoText
  /\ exec_log = <<>>
  /\ synth_log = <<>>
  /\ nl2sql_runs = 0
  /\ visited = <<>>
  /\ output = NoRecord
  /\ clean_in = <<>>
  /\ clean_out = <<>>
  /\ lines = <<>>
  /\ line_num = 0
  /\ results = <<>>
  /\ out_file = NoFile
  /\ trace = <<>>
  /\ shadow = ThisRun

\* router_node with its log_step, then the edge should_retrieve
TracedRouter ==
  /\ pc = "router"
  /\ \E out \in RouteOutputs, write_fails \in BOOLEAN :
       LET after == [state EXCEPT !.route = RouterForward(out)]
           shadow_after == [shadow.state EXCEPT !.route = RouterForward(out)]
       IN Follow("router", after, ShouldRetrieve(after),
                 shadow_after, ShouldRetrieve(shadow_after),
                 LogStep(trace, "router", write_fails))

\* retriever_node with its log_step, then the edge should_plan
TracedRetriever ==
  /\ pc = "retriever"
  /\ \E scores \in [1..NumDocs -> ScoreValues], failed \in BOOLEAN,
        write_fails \in BOOLEAN :
       \E top_indices \in TopIndices(scores, TopK) :
         LET docs == Search(state.question, scores, top_indices, failed)
             after == [state EXCEPT !.retrieved_docs = docs]
             shadow_after ==
               [shadow.state EXCEPT !.retrieved_docs =
                  Search(shadow.state.question, scores, top_indices, failed)]
         IN Follow("retriever", after, ShouldPlan(after),
                   shadow_after, ShouldPlan(shadow_after),
                   LogStep(trace, "retriever", write_fails))

\* planner_node, which writes no trace, then the edge should_execute_sql
TracedPlanner ==
  /\ pc = "planner"
  /\ \E out \in PlannerOutputs :
       LET after == [state EXCEPT !.extracted_constraints = PlannerNode(out)]
           shadow_after ==
             [shadow.state EXCEPT !.extracted_constraints = PlannerNode(out)]
       IN Follow("planner", after, ShouldExecuteSql(after),
                 shadow_after, ShouldExecuteSql(shadow_after),
                 [file |-> trace, raised |-> FALSE])

\* nl2sql_node with its log_step, then the edge to executor
TracedNL2SQL ==
  /\ pc = "nl2sql"
  /\ \E out \in SqlOutputs, write_fails \in BOOLEAN :
       Follow("nl2sql", [state EXCEPT !.sql = NL2SQLForward(out)], "executor",
              [shadow.state EXCEPT !.sql = NL2SQLForward(out)], "executor",
              LogStep(trace, "nl2sql", write_fails))

\* executor_node with its log_step, then the edge to synthesizer
TracedExecutor ==
  /\ pc = "executor"
  /\ \E outcome \in TraceOutcomes, write_fails \in BOOLEAN :
       Follow("executor", ExecutorNode(state, outcome), "synthesizer",
              ExecutorNode(shadow.state, outcome), "synthesizer",
              LogStep(trace, "executor", write_fails))

\* synthesizer_node with its log_step, then the edge should_repair
TracedSynthesizer ==
  /\ pc = "synthesizer"
  /\ \E answer \in TraceAnswers, write_fails \in BOOLEAN :
       LET after == SynthesizerNode(state, answer, NoText)
           shadow_after == SynthesizerNode(shadow.state, answer, NoText)
       IN Follow("synthesizer", after, ShouldRepair(after),
                 shadow_after, ShouldRepair(shadow_after),
                 LogStep(trace, "synthesizer", write_fails))

\* repair_node, which writes no trace, then the edge after_repair
TracedRepair ==
  /\ pc = "repair"
  /\ LET after == RepairNode(state)
         shadow_after == RepairNode(shadow.state)
     IN Follow("repair", after, AfterRepair(after),
               shadow_after, AfterRepair(shadow_after),
               [file |-> trace, raised |-> FALSE])

TraceNext ==
  \/ TracedRouter
  \/ TracedRetriever
  \/ TracedPlanner
  \/ TracedNL2SQL
  \/ TracedExecutor
  \/ TracedSynthesizer
  \/ TracedRepair

TraceSpec == TraceInit /\ [][TraceNext]_vars

\* Every stage is a synchronous call that returns: the run never stalls
\* between two stages.
LiveSpec == Init /\ [][Next]_vars /\ WF_vars(Next)

TypeOK ==
  /\ pc \in {"router", "retriever", "planner", "nl2sql", "executor",
             "synthesizer", "repair", END, Raised, "done"}
  /\ state.repair_count \in 0..3
  /\ nl2sql_runs \in 0..3

\* ===================================================================== claims
\* Number of Synthesizer passes so far.
SynthRuns == Len(synth_log)

\* Either failure classification fires on the current run state.
FailureDetected ==
  Truthy(DetectSqlError(state)) \/ Truthy(DetectFormatError(state))

InRange(c) == 1000 <= c /\ c <= Scale

\* C1: for every route, format_hint and collaborator behaviour a run
\* terminates (the driver gets its record), and the Synthesizer stage runs
\* at most 3 times in the run.
RepairLoopTerminates == <>(pc = "done") /\ [](SynthRuns <= 3)

\* C1 witness: a run that ended after three Synthesizer passes on a query
\* that failed on every attempt.
ThreePassesThenDone ==
  /\ pc = "done"
  /\ SynthRuns = 3
  /\ Truthy(state.sql_result.error)

\* C2: the repair loop never raises outward: once the repair guard has fired
\* the run still returns a terminal state with the Synthesizer's answer,
\* never an exception to the driver (no fallback record).
RepairNeverRaises ==
  /\ pc # Raised
  /\ (pc = "done" => output.kind = "normal")

\* C3: after every Repair step the next stage is QueryGen when the
\* query-failure classification is non-empty, and Synthesizer otherwise.
RepairRoutesByClassification ==
  [][pc = "repair" =>
       IF Truthy(DetectSqlError(state'))
         THEN pc' = "nl2sql"
         ELSE pc' = "synthesizer"]_vars

\* C4: a run routed sql whose first execution fails with "no such column"
\* and whose later executions return rows ends with QueryGen and QueryExec
\* run exactly twice, repair_count = 1 and confidence 0.72.
ColumnErrorRepairedOnce ==
  ( /\ pc \in {END, "done"}
    /\ state.route = <<"sql">>
    /\ Len(exec_log) >= 1
    /\ Contains(Lower(exec_log[1].error.v), "no such column")
    /\ \A i \in 2..Len(exec_log) :
         ~Truthy(exec_log[i].error) /\ exec_log[i].rows > 0 )
  => ( /\ nl2sql_runs = 2
       /\ Len(exec_log) = 2
       /\ state.repair_count = 1
       /\ state.confidence = 7200 )

\* C5: a Repair step taken on a format failure with no query error goes
\* back to the Synthesizer, leaving the sql text and query_result as they
\* were.
FormatRepairReentersSynthesizer ==
  [][(pc = "repair" /\ ~Truthy(DetectSqlError(state))
        /\ Truthy(DetectFormatError(state)))
     => ( /\ pc' = "synthesizer"
          /\ state'.sql = state.sql
          /\ state'.sql_result = state.sql_result )]_vars

\* C6: when a failure is still detected once the retry bound is reached, the
\* run ends with confidence max(0.1, 0.3 * the last Synthesizer pass's
\* confidence) and with the error field cleared.
ForceAcceptAtBound ==
  (pc = END /\ state.repair_count >= 2 /\ FailureDetected)
  => ( /\ state.confidence = Max(1000, (synth_log[SynthRuns] * 3) \div 10)
       /\ state.error.isNone )

\* C7 as stated: confidence is within [0.1, 1.0] in every run state, the
\* initial one included, and in every emitted record.
ConfidenceAlwaysInRange ==
  /\ InRange(state.confidence)
  /\ (output.kind # "none" => InRange(output.confidence))

\* C7 as amended: confidence is within [0.1, 1.0] from the first Synthesizer
\* pass on and in every emitted record; before that pass the run state
\* holds the driver's 0.0.
ConfidenceInRangeOnceSynthesized ==
  /\ (SynthRuns >= 1 => InRange(state.confidence))
  /\ (SynthRuns = 0 => state.confidence = 0)
  /\ (output.kind # "none" => InRange(output.confidence))

\* C7 witness: a normal record emitted after two repair cycles.
DecayedRecordEmitted ==
  /\ pc = "done"
  /\ output.kind = "normal"
  /\ state.repair_count = 2
  /\ state.confidence = 4050
  /\ output.confidence = 4100

\* The Synthesizer is about to run on a regenerated query that returns rows
\* where the previous result had none.
NewlyReturnsRows ==
  /\ pc = "synthesizer"
  /\ Len(exec_log) >= 2
  /\ exec_log[Len(exec_log)].rows > 0
  /\ exec_log[Len(exec_log) - 1].rows = 0

\* C8 as stated: after the first Synthesizer pass no step raises confidence.
ConfidenceNeverRises ==
  [][SynthRuns >= 1 => state'.confidence <= state.confidence]_vars

\* C8 as amended: after the first Synthesizer pass no step raises
\* confidence, except the Synthesizer pass that follows a regenerated query
\* returning rows where the previous result had none.
ConfidenceRisesOnlyOnNewRows ==
  [][(SynthRuns >= 1 /\ ~NewlyReturnsRows)
     => state'.confidence <= state.confidence]_vars

\* C8 witness: a second Synthesizer pass wrote a smaller confidence.
SecondPassLowered ==
  /\ SynthRuns >= 2
  /\ synth_log[2] < synth_log[1]

\* 0.9^k for k in 0..3, as a table.
DecayTable(k) ==
  CASE k = 0 -> 10000 [] k = 1 -> 9000 [] k = 2 -> 8100 [] k = 3 -> 7290

\* clamp(base * 0.9^k, 0.1, 1.0) with base = 0.5 (+0.3 rows) (+0.2 documents)
ClampedDecay(rows, docs, k) ==
  LET base == 5000 + (IF rows THEN 3000 ELSE 0) + (IF docs THEN 2000 ELSE 0)
      v == (base * DecayTable(k)) \div 10000
  IN IF v < 1000 THEN 1000 ELSE IF v > 10000 THEN 10000 ELSE v

\* C9: after every Synthesizer pass confidence is
\* clamp(base * 0.9^repair_count, 0.1, 1.0), whatever the reasoning
\* capability returned; the scoring agrees with that for repair_count 0..3.
ConfidenceIsClampedDecay ==
  /\ (pc \in {"repair", END} =>
        state.confidence =
          ClampedDecay(state.sql_result.present /\ state.sql_result.rows > 0,
                       state.retrieved_docs # <<>>, state.repair_count))
  /\ \A k \in 0..3 :
       CalculateConfidence(state.sql_result, state.retrieved_docs, k) =
         ClampedDecay(state.sql_result.present /\ state.sql_result.rows > 0,
                      state.retrieved_docs # <<>>, k)

\* C9 witness: the third Synthesizer pass of a run with documents and no rows.
ThirdPassWithDocs ==
  /\ pc = END
  /\ state.repair_count = 2
  /\ Len(state.retrieved_docs) > 0
  /\ state.confidence = 5670

\* C10: once the Router has run, route is rag, sql or hybrid: the classifier
\* output lower-cased and trimmed when that is one of the three, hybrid
\* otherwise (a missing output included), and it stays so in every later
\* state.
RouteIsValid ==
  pc # "router" =>
    /\ state.route \in {<<"rag">>, <<"sql">>, <<"hybrid">>}
    /\ IF ~llm_route.isNone
          /\ Strip(Lower(llm_route.v)) \in {<<"rag">>, <<"sql">>, <<"hybrid">>}
         THEN state.route = Strip(Lower(llm_route.v))
         ELSE state.route = <<"hybrid">>

\* C10 witness: a padded upper-case answer was kept as sql to the end.
PaddedRouteKept ==
  /\ pc = "done"
  /\ llm_route = SomeText(<<" ", "SQL", "\n">>)
  /\ state.route = <<"sql">>

\* a is an initial segment of b
IsPrefix(a, b) == Len(a) <= Len(b) /\ SubSeq(b, 1, Len(a)) = a

\* The stages the first pass of a run goes through, by route.
FirstPass(route) ==
  IF route = <<"rag">> THEN <<"router", "retriever", "synthesizer">>
  ELSE IF route = <<"sql">>
    THEN <<"router", "planner", "nl2sql", "executor", "synthesizer">>
  ELSE <<"router", "retriever", "planner", "nl2sql", "executor", "synthesizer">>

\* C11: the first pass of a run follows the route guards: Router runs first,
\* Retriever runs iff route is rag or hybrid, Planner, QueryGen and QueryExec
\* run iff route is sql or hybrid, in that order and after Retriever; every
\* QueryGen visit is immediately followed by QueryExec and then Synthesizer;
\* and Synthesizer has run before the run ends.
FirstPassFollowsRouteGuards ==
  /\ visited = <<>> => pc = "router"
  /\ visited # <<>> =>
       /\ \/ IsPrefix(visited, FirstPass(state.route))
          \/ IsPrefix(FirstPass(state.route), visited)
       /\ Len(visited) < Len(FirstPass(state.route)) =>
            pc = FirstPass(state.route)[Len(visited) + 1]
  /\ \A i \in 1..Len(visited) :
       visited[i] = "nl2sql" =>
         /\ IF i = Len(visited) THEN pc = "executor"
                                ELSE visited[i + 1] = "executor"
         /\ i + 1 = Len(visited) => pc = "synthesizer"
         /\ i + 2 <= Len(visited) => visited[i + 2] = "synthesizer"
  /\ pc \in {END, Raised, "done"} =>
       \E i \in 1..Len(visited) : visited[i] = "synthesizer"

\* C11 witness: a hybrid run that went through Retriever, regenerated its
\* query in a repair cycle and ended.
HybridRunRegenerated ==
  /\ pc = "done"
  /\ state.route = <<"hybrid">>
  /\ nl2sql_runs = 2
  /\ IsPrefix(FirstPass(<<"hybrid">>), visited)

\* C12: after every Synthesizer pass the next stage is Repair if and only if
\* the query-failure or the format-failure classification of the state the
\* pass produced is non-empty and repair_count < 2; in every other case the
\* run is terminal.
RepairGuardedByFailureAndBound ==
  [][pc = "synthesizer" =>
       IF /\ \/ Truthy(DetectSqlError(state'))
             \/ Truthy(DetectFormatError(state'))
          /\ state'.repair_count < 2
         THEN pc' = "repair"
         ELSE pc' = END]_vars

\* C12 witness: the second Synthesizer pass left only a format failure and
\* the run went to Repair a second time.
FormatFailureSentToRepair ==
  /\ pc = "repair"
  /\ state.repair_count = 1
  /\ Truthy(DetectFormatError(state))
  /\ ~Truthy(DetectSqlError(state))

\* The kind of value a format_hint asks for.
ExpectedKind(format_hint) ==
  IF format_hint = <<"int">> THEN "int"
  ELSE IF format_hint = <<"float">> THEN "float"
  ELSE IF format_hint = <<"list">> \/ TokStartsWith(format_hint[1], "list[")
    THEN "list"
  ELSE IF format_hint = <<"object">> \/ TokStartsWith(format_hint[1], "{")
    THEN "dict"
  ELSE "str"

\* C13: answer coercion is total and shape-preserving: whatever answer text
\* the reasoning capability returned, after a Synthesizer pass final_answer
\* is an integer for int, a real number for float, a sequence for list and
\* list[...], a mapping for object and {...}, and text for any other hint.
CoercionPreservesShape ==
  synth_log # <<>> => state.final_answer.t = ExpectedKind(state.format_hint)

\* The citation texts that are empty or fail to parse as JSON.
EmptyOrUnparseable == {SomeText(<<>>), SomeText(<<"Orders, Products">>)}

\* C14: after any Synthesizer pass in which the returned citation text is
\* empty or fails to parse as JSON, citations contains every retrieved
\* document id and, when query rows are non-empty, the canonical table names;
\* so citations is non-empty whenever documents or rows are present.
CitationFallbackCoversEvidence ==
  [][pc = "synthesizer" =>
       \A answer \in AnswerOutputs, citations_str \in EmptyOrUnparseable :
         state' = SynthesizerNode(state, answer, citations_str) =>
           /\ DocIds(state'.retrieved_docs) \subseteq state'.citations.items
           /\ HasRows(state'.sql_result) =>
                CanonicalTables \subseteq state'.citations.items
           /\ (state'.retrieved_docs # <<>> \/ HasRows(state'.sql_result)) =>
                state'.citations.items # {}]_vars

\* C15: query text normalization is idempotent: for every generated query
\* text, over any arrangement, adjacency or nesting of the fragments of
\* "Order Details" in double quotes, Order_Items, CustomerName, order_items,
\* CompanyName and other text, applying the rules twice yields the same text
\* as applying them once.
CleanSqlIdempotent ==
  Len(clean_out) = 2 => clean_out[2] = clean_out[1]

\* C15 witness: Order_Items nested inside CustomerName was rewritten, and the
\* result normalized a second time.
NestedPatternCleanedTwice ==
  /\ clean_in = <<"Customer", "Order_", "Items", "Name">>
  /\ Len(clean_out) = 2
  /\ clean_out[1] = <<"Customer", "order_", "items", "Name">>

\* The line numbers of the records in results, in order.
RecordIds == [i \in 1..Len(results) |-> results[i].id]

\* The consumed lines that hold a JSON object.
ObjectLine(n) == LineIsDict(Strip(lines[n].text))

\* C16: an exception raised while processing one question never aborts the
\* batch: results holds exactly one record for that question, with
\* final_answer the fallback of the coercion table for its format_hint (0,
\* 0.0, [], {} or the text Error), sql empty, confidence 0.1 and citations
\* empty; and every other question consumed so far has its own record.
FailedQuestionGetsTableFallback ==
  /\ \A i \in 1..Len(results) :
       results[i].kind = "fallback" =>
         /\ results[i].final_answer =
              GetFormatDefault(lines[results[i].id].format_hint)
         /\ results[i].sql = <<>>
         /\ results[i].confidence = 1000
         /\ results[i].citations = CiteList({})
  /\ \A n \in 1..line_num :
       ObjectLine(n) =>
         Cardinality({i \in 1..Len(results) : results[i].id = n}) = 1

\* The numbers of the lines consumed so far, in order.
ConsumedLines == [n \in 1..line_num |-> n]

\* Line n is neither empty nor malformed (non-JSON).
WellFormedLine(n) ==
  /\ Len(Strip(lines[n].text)) > 0
  /\ LineParses(Strip(lines[n].text))

FragmentAtTwoHundredthsExcluded ==
  [][(pc = "synthesizer" /\ state.route = <<"rag">>) =>
       /\ \A i \in 1..Len(state.retrieved_docs) :
            state.retrieved_docs[i].score # 200
       /\ state.retrieved_docs = <<>> => state'.confidence = 5000]_vars

\* Number of Repair steps so far.
RepairSteps == Cardinality({i \in 1..Len(visited) : visited[i] = "repair"})

\* C19: repair_count is 0 in the initial run state, changes only by +1 in a
\* Repair step (it is the number of Repair steps so far), and is at most 3
\* in every reachable state.
RepairCountCountsRepairSteps ==
  /\ state.repair_count = RepairSteps
  /\ state.repair_count <= 3

\* C19 witness: a run that ended after two Repair steps.
EndedAfterTwoRepairs ==
  /\ pc = END
  /\ RepairSteps = 2
  /\ state.repair_count = 2

\* The last node the graph ran was QueryExec.
JustExecuted == visited # <<>> /\ visited[Len(visited)] = "executor"

\* C20: after every QueryExec step, sql_result is exactly the store's result
\* object, and error equals the store's reported error when it reports one
\* (a non-empty text) and is None otherwise, whatever error held before the
\* step.
ExecutorCopiesStoreResult ==
  JustExecuted =>
    LET store_result == exec_log[Len(exec_log)] IN
    /\ state.sql_result = store_result
    /\ IF ~store_result.error.isNone /\ Len(store_result.error.v) > 0
         THEN state.error = store_result.error
         ELSE state.error.isNone

\* C20 witness: the second execution returned rows after the first one
\* failed, and the error left by the first is gone.
StaleErrorCleared ==
  /\ JustExecuted
  /\ Len(exec_log) = 2
  /\ ~exec_log[1].error.isNone /\ Len(exec_log[1].error.v) > 0
  /\ exec_log[2].rows > 0
  /\ state.error.isNone

\* C21: whenever QueryExec runs, the sql text is non-empty after trimming (a
\* generated text that is empty after trimming was replaced by the
\* placeholder query before it was stored), so no execution of the run
\* reports the store's empty_query rejection.
ExecutedSqlNeverEmpty ==
  /\ (pc = "executor" \/ JustExecuted) => Len(Strip(state.sql)) > 0
  /\ \A i \in 1..Len(exec_log) :
       exec_log[i].error # SomeText(<<"empty_query">>)

\* C21 witness: the generator returned nothing usable and the placeholder
\* query was executed.
PlaceholderExecuted ==
  /\ JustExecuted
  /\ state.sql = PlaceholderSql
  /\ exec_log[Len(exec_log)].error.isNone

\* The error texts the classification looks for and their tags, by priority.
ErrorTexts == <<"syntax error", "no such table", "no such column">>

ErrorTags == <<"sql_syntax_error", "sql_table_error", "sql_column_error">>

\* The tag of the first error text, in priority order, that the lower-cased
\* message contains; sql_execution_error when it contains none.
TagByPriority(msg) ==
  LET hits == {i \in 1..Len(ErrorTexts) : Contains(Lower(msg), ErrorTexts[i])}
  IN IF hits = {} THEN "sql_execution_error"
     ELSE ErrorTags[CHOOSE i \in hits : \A j \in hits : i <= j]

\* C22: the query-failure classification yields nothing when sql_result is
\* absent or has no error; otherwise it yields exactly one tag, chosen in
\* priority order on the lower-cased error text (syntax, table, column, else
\* sql_execution_error, the store's query_too_long included), followed by the
\* original, un-lowered message.
SqlErrorClassifiedByPriority ==
  LET sql_result == state.sql_result
      detected == DetectSqlError(state)
  IN IF ~sql_result.present \/ sql_result.error.isNone \/ sql_result.error.v = <<>>
       THEN detected.isNone
       ELSE /\ ~detected.isNone
            /\ detected.v = <<TagByPriority(sql_result.error.v), ": ">>
                              \o sql_result.error.v

\* C22 witness: a message naming a missing table and, in capitals, a syntax
\* error was classified as a syntax error and kept as the store wrote it.
MixedCaseSyntaxErrorClassified ==
  /\ JustExecuted
  /\ state.sql_result.error = SomeText(<<"near ", "no such table", ": ", "Syntax Error">>)
  /\ DetectSqlError(state).v[1] = "sql_syntax_error"
  /\ DetectSqlError(state).v[6] = "Syntax Error"

\* C23: a failure of the trace sink to write an event at any stage never
\* affects the run: the stages visited, the run state and the next stage are
\* at every point those of the same run with every trace write succeeding.
TraceFailureNeverAffectsRun ==
  shadow = ThisRun

\* C23 witness: a hybrid run went through its first pass and ended while
\* every trace write failed.
EndedWithEmptyTrace ==
  /\ pc = END
  /\ trace = <<>>
  /\ visited = <<"router", "retriever", "planner", "nl2sql", "executor",
                 "synthesizer">>

\* C24: every reachable Repair step changes only repair_count, by exactly
\* +1: neither the force-accept branch nor the recovered branch is taken, so
\* sql, sql_result, final_answer, confidence, error, citations and
\* retrieved_docs are as they were.
RepairChangesOnlyRepairCount ==
  [][pc = "repair" =>
       state' = [state EXCEPT !.repair_count = state.repair_count + 1]]_vars

\* C24 witness: a Repair step has just run on a failed query; the error and
\* the confidence of the Synthesizer pass before it are still there.
RepairedWithErrorKept ==
  /\ visited # <<>> /\ visited[Len(visited)] = "repair"
  /\ state.repair_count = 1
  /\ Truthy(state.error)
  /\ state.confidence = synth_log[Len(synth_log)]

\* The first query execution returned an error whose text does not begin
\* with "sql_".
FirstErrorLacksSqlPrefix ==
  /\ exec_log # <<>>
  /\ ~exec_log[1].error.isNone
  /\ Len(exec_log[1].error.v) > 0
  /\ ~TextStartsWith(exec_log[1].error.v, "sql_")

\* C25: in a run whose query execution returns an error whose text does not
\* begin with "sql_", the query is never regenerated: QueryGen and QueryExec
\* run exactly once, and the run ends, without raising, after exactly 3
\* Synthesizer passes with repair_count = 2, sql_result.error and error
\* still set and confidence = clamp(base * 0.81, 0.1, 1.0).
UnprefixedErrorNeverRegenerates ==
  FirstErrorLacksSqlPrefix =>
    /\ nl2sql_runs = 1
    /\ Len(exec_log) = 1
    /\ pc # Raised
    /\ pc \in {END, "done"} =>
         /\ SynthRuns = 3
         /\ state.repair_count = 2
         /\ state.sql_result.error = exec_log[1].error
         /\ state.error = exec_log[1].error
         /\ state.confidence =
              LET base == 5000 + (IF state.retrieved_docs # <<>> THEN 2000 ELSE 0)
                  decayed == (base * 81) \div 100
              IN IF decayed < 1000 THEN 1000
                 ELSE IF decayed > Scale THEN Scale ELSE decayed

\* C25 witness: a hybrid run with documents whose query was rejected as too
\* long ended after three Synthesizer passes with confidence 0.567.
TooLongQueryNeverRegenerated ==
  /\ pc = "done"
  /\ exec_log # <<>>
  /\ exec_log[1].error = SomeText(<<"query_too_long">>)
  /\ nl2sql_runs = 1
  /\ SynthRuns = 3
  /\ state.confidence = 5670

\* The values json.loads can return.
JsonValues == {JsonOf(<<d>>) : d \in JsonDocs}

\* C26: after any Synthesizer pass with format_hint int or float the
\* format-failure classification does not fire; it fires only for list,
\* list[...], object and {...} hints, and only when final_answer is a
\* JSON-decoded value of another kind than the hint requires.
FormatFailureOnlyOnDecodedOtherKind ==
  (synth_log # <<>> /\ Truthy(DetectFormatError(state))) =>
    /\ state.format_hint \notin {<<"int">>, <<"float">>}
    /\ ExpectedKind(state.format_hint) \in {"list", "dict"}
    /\ state.final_answer \in JsonValues
    /\ state.final_answer.t # ExpectedKind(state.format_hint)

\* C26 witness: under hint object the answer text decoded to a sequence and
\* the format failure fired.
SequenceUnderObjectHintFails ==
  /\ synth_log # <<>>
  /\ state.format_hint = <<"object">>
  /\ state.final_answer.t = "list"
  /\ Truthy(DetectFormatError(state))

====
